---- MODULE Spec2Model ----
(***************************************************************************)
(* Model of src/app.py: the Streamlit pill counter ("colour lock"          *)
(* variant).  process_image(img_buffer) is a five stage pipeline           *)
(*   decode -> circular mask -> HSV range filter -> closing / contour fill *)
(*   -> opening -> distance transform -> peak threshold -> contours        *)
(*   -> counting loop -> return, then the page renders the count.          *)
(* Images are arrays im[y][x] with y in 0..h-1 and x in 0..w-1; the        *)
(* neighbourhood primitives work on the row-major raster r[y*w + x].  The  *)
(* OpenCV primitives the program calls are modelled by what they compute   *)
(* on 8-bit images.                                                        *)
(***************************************************************************)
EXTENDS Integers, Sequences, FiniteSets, TLC

\* Side, in pixels, of the survey frames the camera may deliver.
FrameSide == 24

VARIABLES
    pc,              \* position of the script / of process_image
    img_file,        \* what st.camera_input returned (line 109)
    cfg,             \* the slider values process_image has read so far
    img,             \* the decoded frame [h, w, pix], pix[y][x] = <<b,g,r>>
    mask,            \* line 47-50
    masked_img,      \* line 53
    thresh,          \* line 61, rewritten by lines 68 and 73
    opening,         \* line 76
    dist_transform,  \* line 79, the float32 values in units of 1/32768 pixel
    sure_fg,         \* line 80-81
    cnts,            \* line 84
    idx,             \* position of the for loop of line 89 in cnts
    count,           \* line 86, 93
    output_img,      \* the annotations drawn on img.copy(): [label, dot, box]
    error,           \* the exception that left process_image, if any
    shown            \* the count the page rendered (line 114)

vars == <<pc, img_file, cfg, img, mask, masked_img, thresh, opening,
          dist_transform, sure_fg, cnts, idx, count, output_img, error, shown>>

\* Python's None, wherever an object is expected.
None == [kind |-> "none"]

---------------------------------------------------------------------------
\* Arithmetic helpers

Min2(a, b) == IF a <= b THEN a ELSE b
Max2(a, b) == IF a >= b THEN a ELSE b
Abs(a) == IF a < 0 THEN -a ELSE a

\* An array is computed once when the call that makes it returns; comparing
\* it with itself makes the evaluator build it before it is read.
Materialize(f) == IF f = f THEN f ELSE f

\* cvRound(n / d) for n >= 0, d > 0: round half to even.
RoundDiv(n, d) ==
    LET q == n \div d
        r == n % d
    IN  IF 2 * r < d THEN q
        ELSE IF 2 * r > d THEN q + 1
        ELSE q + (q % 2)

\* Python's int() of a quotient: truncation toward zero.
TruncDiv(n, d) ==
    IF (n >= 0) = (d > 0) THEN Abs(n) \div Abs(d) ELSE -(Abs(n) \div Abs(d))

---------------------------------------------------------------------------
\* Frames and byte buffers

White == <<255, 255, 255>>
Wood  == <<60, 120, 180>>
Black == <<0, 0, 0>>

InDisc(x, y, d) == (x - d[1]) * (x - d[1]) + (y - d[2]) * (y - d[2]) <= d[3] * d[3]
InRect(x, y, r) == r[1] <= x /\ x <= r[3] /\ r[2] <= y /\ y <= r[4]

UniformFrame(h, w, colour) ==
    [h |-> h, w |-> w, pix |-> [y \in 0..(h - 1) |-> [x \in 0..(w - 1) |-> colour]]]

\* Filled discs <<cx, cy, r>> and filled rectangles <<x1, y1, x2, y2>> of
\* colour fg on a background bg; holes are discs painted bg on top.
ShapesFrame(h, w, discs, rects, holes, fg, bg) ==
    [h |-> h, w |-> w,
     pix |-> [y \in 0..(h - 1) |-> [x \in 0..(w - 1) |->
                IF \E d \in holes : InDisc(x, y, d) THEN bg
                ELSE IF \/ \E d \in discs : InDisc(x, y, d)
                        \/ \E r \in rects : InRect(x, y, r)
                     THEN fg ELSE bg]]]

---------------------------------------------------------------------------
\* cv2.circle(mask, center, radius, 255, -1): the filled midpoint circle.

\* The <<dx, dy>> pairs the drawing loop visits ("while dx >= dy"), from the
\* state <<err, dx, dy, plus, minus>>.
RECURSIVE CircleSteps(_, _, _, _, _)
CircleSteps(err, dx, dy, plus, minus) ==
    IF dx < dy THEN {}
    ELSE LET err1 == err + plus
         IN  {<<dx, dy>>} \cup
             (IF err1 > 0
              THEN CircleSteps(err1 - minus, dx - 1, dy + 1, plus + 2, minus - 2)
              ELSE CircleSteps(err1, dx, dy + 1, plus + 2, minus))

\* Half width of the disc on the row k rows away from the centre row, or -1:
\* each step draws the rows cy +- dy from cx - dx to cx + dx and the rows
\* cy +- dx from cx - dy to cx + dy.
CircleHalfWidths(radius) ==
    LET steps == CircleSteps(0, radius, 0, 1, 2 * radius - 1)
    IN  [k \in 0..radius |->
           LET ws == {s[1] : s \in {t \in steps : t[2] = k}} \cup
                     {s[2] : s \in {t \in steps : t[1] = k}}
           IN  IF ws = {} THEN -1 ELSE CHOOSE m \in ws : \A o \in ws : o <= m]

\* The mask of lines 47-50: zeros, then the filled circle clipped to the image.
CircleMask(h, w, radius) ==
    LET cx == w \div 2
        cy == h \div 2
        hw == CircleHalfWidths(radius)
    IN  [y \in 0..(h - 1) |-> [x \in 0..(w - 1) |->
           LET ky == Abs(y - cy)
               kx == Abs(x - cx)
           IN  IF ky <= radius /\ kx <= hw[ky] THEN 255 ELSE 0]]

\* 2^k modulo n.
RECURSIVE Pow2Mod(_, _)
Pow2Mod(k, n) == IF k = 0 THEN 1 % n ELSE (2 * Pow2Mod(k - 1, n)) % n

\* The binary exponent of n / d: the e with 2^e <= n / d < 2^(e + 1).
RECURSIVE FloorLog2(_, _)
FloorLog2(n, d) ==
    IF n < d THEN FloorLog2(2 * n, d) - 1
    ELSE IF n < 2 * d THEN 0
    ELSE FloorLog2(n, 2 * d) + 1

\* radius = int(min(h, w) / 2 * mask_radius), the slider in hundredths, in
\* double precision.  min(h, w) / 2 is exact; the slider value is the double
\* q nearest to pct / 100, whose 53 bit significand is pct * 2^(52 - e) / 100
\* rounded, e the exponent of pct / 100.  The product is rounded to a double
\* and truncated.  It differs from the exact quotient only when
\* min(h, w) * pct / 200 is a whole number N and q lies below pct / 100
\* (the remainder r of the significand is below one half): then the exact
\* product falls short of N by r * min(h, w) / 100 units of 2^(e - 53), and
\* it rounds back to N only when that is at most half the spacing of the
\* doubles below N.
MaskRadius(h, w, pct) ==
    LET m == Min2(h, w)
        N == (m * pct) \div 200
    IN  IF (m * pct) % 200 # 0 \/ N = 0 THEN N
        ELSE LET e == FloorLog2(pct, 100)
                 r == (pct * Pow2Mod(52 - e, 100)) % 100
                 E == FloorLog2(N, 1)
                 short == r * m * (IF N = 2^E THEN 2 ELSE 1)
             IN  IF r = 0 \/ 2 * r > 100 \/ short <= 100 * 2^(E - e)
                 THEN N ELSE N - 1

\* cv2.bitwise_and(img, img, mask=mask): black where the mask is 0.
BitwiseAndMask(pix, m) ==
    [y \in DOMAIN pix |-> [x \in DOMAIN pix[y] |->
       IF m[y][x] # 0 THEN pix[y][x] ELSE Black]]

---------------------------------------------------------------------------
\* cv2.cvtColor(..., COLOR_BGR2HSV) on 8-bit pixels (fixed point, shift 12)
\* and cv2.inRange.

HsvShift == 12

BGR2HSV(c) ==
    LET b == c[1]
        g == c[2]
        r == c[3]
        v == Max2(b, Max2(g, r))
        vmin == Min2(b, Min2(g, r))
        diff == v - vmin
        sdiv == IF v = 0 THEN 0 ELSE RoundDiv(255 * 2^HsvShift, v)
        hdiv == IF diff = 0 THEN 0 ELSE RoundDiv(180 * 2^HsvShift, 6 * diff)
        s == (diff * sdiv + 2^(HsvShift - 1)) \div 2^HsvShift
        h0 == IF v = r THEN g - b
              ELSE IF v = g THEN b - r + 2 * diff
              ELSE r - g + 4 * diff
        h1 == (h0 * hdiv + 2^(HsvShift - 1)) \div 2^HsvShift
    IN  <<IF h1 < 0 THEN h1 + 180 ELSE h1, s, v>>

\* One pixel of cv2.inRange(hsv, lower_bound, upper_bound).
InRangePixel(p, lo, hi) ==
    /\ lo[1] <= p[1] /\ p[1] <= hi[1]
    /\ lo[2] <= p[2] /\ p[2] <= hi[2]
    /\ lo[3] <= p[3] /\ p[3] <= hi[3]

InRange(pix, lo, hi) ==
    [y \in DOMAIN pix |-> [x \in DOMAIN pix[y] |->
       IF InRangePixel(BGR2HSV(pix[y][x]), lo, hi) THEN 255 ELSE 0]]

\* The row-major raster of an image, and the image of a raster.
Raster(im, h, w) == Materialize([i \in 0..(h * w - 1) |-> im[i \div w][i % w]])
Rows(r, h, w) == [y \in 0..(h - 1) |-> [x \in 0..(w - 1) |-> r[y * w + x]]]

---------------------------------------------------------------------------
\* cv2.morphologyEx with kernel = np.ones((5,5)): the default border never
\* wins (dilate ignores pixels outside the image, and so does erode).  The
\* all-ones rectangle is applied as a row pass followed by a column pass.

KernelSize == 5
KernelReach == KernelSize \div 2
CloseIterations == 3
OpenIterations == 2

DilateRows(im, h, w) ==
    [i \in 0..(h * w - 1) |->
       LET x == i % w
       IN  IF \E d \in (-KernelReach)..KernelReach :
                x + d >= 0 /\ x + d < w /\ im[i + d] # 0
           THEN 255 ELSE 0]

DilateCols(im, h, w) ==
    [i \in 0..(h * w - 1) |->
       LET y == i \div w
       IN  IF \E d \in (-KernelReach)..KernelReach :
                y + d >= 0 /\ y + d < h /\ im[i + d * w] # 0
           THEN 255 ELSE 0]

ErodeRows(im, h, w) ==
    [i \in 0..(h * w - 1) |->
       LET x == i % w
       IN  IF \A d \in (-KernelReach)..KernelReach :
                (x + d >= 0 /\ x + d < w) => im[i + d] # 0
           THEN 255 ELSE 0]

ErodeCols(im, h, w) ==
    [i \in 0..(h * w - 1) |->
       LET y == i \div w
       IN  IF \A d \in (-KernelReach)..KernelReach :
                (y + d >= 0 /\ y + d < h) => im[i + d * w] # 0
           THEN 255 ELSE 0]

Dilate(im, h, w) == Materialize(DilateCols(Materialize(DilateRows(im, h, w)), h, w))
Erode(im, h, w) == Materialize(ErodeCols(Materialize(ErodeRows(im, h, w)), h, w))

RECURSIVE DilateN(_, _, _, _)
DilateN(im, h, w, n) == IF n = 0 THEN im ELSE DilateN(Dilate(im, h, w), h, w, n - 1)

RECURSIVE ErodeN(_, _, _, _)
ErodeN(im, h, w, n) == IF n = 0 THEN im ELSE ErodeN(Erode(im, h, w), h, w, n - 1)

\* MORPH_CLOSE: dilate then erode; MORPH_OPEN: erode then dilate.
MorphClose(im, h, w, n) == ErodeN(DilateN(im, h, w, n), h, w, n)
MorphOpen(im, h, w, n) == DilateN(ErodeN(im, h, w, n), h, w, n)

---------------------------------------------------------------------------
\* The background that reaches the image border through 4-connected zero
\* pixels.  A pixel is outside when it is zero and on the border, or next to
\* an outside pixel; raster sweeps (down, then up) are repeated until
\* nothing changes.

OutsideSeed(im, h, w) ==
    [i \in 0..(h * w - 1) |->
       /\ im[i] = 0
       /\ \/ i % w = 0 \/ i % w = w - 1 \/ i \div w = 0 \/ i \div w = h - 1]

\* Pixels lo..hi in raster order; each sees the pixels above and to its left
\* as the sweep left them.
RECURSIVE SweepDown(_, _, _, _, _)
SweepDown(out, im, w, lo, hi) ==
    IF lo = hi
    THEN IF /\ ~out[lo] /\ im[lo] = 0
            /\ \/ (lo % w > 0 /\ out[lo - 1])
               \/ (lo >= w /\ out[lo - w])
         THEN [out EXCEPT ![lo] = TRUE] ELSE out
    ELSE LET mid == (lo + hi) \div 2
             first == SweepDown(out, im, w, lo, mid)
         IN  IF first[lo] \in BOOLEAN
             THEN SweepDown(first, im, w, mid + 1, hi) ELSE first

\* Pixels hi..lo in reverse raster order; each sees the pixels below and to
\* its right.
RECURSIVE SweepUp(_, _, _, _, _, _)
SweepUp(out, im, w, n, lo, hi) ==
    IF lo = hi
    THEN IF /\ ~out[lo] /\ im[lo] = 0
            /\ \/ (lo % w < w - 1 /\ out[lo + 1])
               \/ (lo + w < n /\ out[lo + w])
         THEN [out EXCEPT ![lo] = TRUE] ELSE out
    ELSE LET mid == (lo + hi) \div 2
             first == SweepUp(out, im, w, n, mid + 1, hi)
         IN  IF first[hi] \in BOOLEAN
             THEN SweepUp(first, im, w, n, lo, mid) ELSE first

RECURSIVE SweepUntilStable(_, _, _, _)
SweepUntilStable(out, im, h, w) ==
    LET n == h * w
        next == SweepUp(SweepDown(out, im, w, 0, n - 1), im, w, n, 0, n - 1)
    IN  IF next = out THEN out ELSE SweepUntilStable(next, im, h, w)

OuterBackground(im, h, w) == SweepUntilStable(OutsideSeed(im, h, w), im, h, w)

\* Lines 71-73: every external contour drawn filled.  The filled outer
\* borders cover exactly the pixels the outer background does not reach.
FillExternalContours(im, h, w) ==
    LET out == OuterBackground(im, h, w)
    IN  [i \in 0..(h * w - 1) |-> IF out[i] THEN 0 ELSE 255]

---------------------------------------------------------------------------
\* cv2.distanceTransform(opening, cv2.DIST_L2, 5): the two pass 5x5 chamfer
\* transform in 16.16 fixed point (1, 1.4 and 2.1969 pixels), its result
\* converted to float32.  What a pixel gets that no zero pixel reaches
\* depends on the release of the library: the unsigned buffer is bordered
\* with, and capped at, DIST_MAX = UINT_MAX - LONG_DIST; the signed buffer
\* of earlier releases is bordered with INIT_DIST0 = INT_MAX >> 2 and not
\* capped, so that such a pixel gets INIT_DIST0 plus its chamfer distance to
\* the border.  With a zero pixel in the map the border never wins and the
\* two give the same distances.

HV_DIST == 65536
DIAG_DIST == 91750
LONG_DIST == 143976
INIT_DIST0 == 536870911
\* DIST_MAX = 4294823319 = 2 * HALF_DIST_MAX + 1.
HALF_DIST_MAX == 2147411659

Builds == {"uint", "int"}

\* The buffer of each build.  The unsigned buffer is held in halves (unit
\* 1/32768 pixel, every weight is even) so that its values stay below 2^31;
\* a value of HALF_DIST_MAX stands for DIST_MAX.  The signed buffer is held
\* as it is (unit 1/65536 pixel).
Chamfer(build) ==
    IF build = "uint"
    THEN [hv |-> HV_DIST \div 2, diag |-> DIAG_DIST \div 2,
          long |-> LONG_DIST \div 2, border |-> HALF_DIST_MAX, capped |-> TRUE]
    ELSE [hv |-> HV_DIST, diag |-> DIAG_DIST,
          long |-> LONG_DIST, border |-> INIT_DIST0, capped |-> FALSE]

\* tmp[j] = (t0 > DIST_MAX) ? DIST_MAX : t0 in the unsigned build.
Cap(c, t0) == IF c.capped THEN Min2(c.border, t0) ELSE t0

\* tmp[y][x] with the two pixel border around the image.
TmpAt(t, h, w, x, y, c) ==
    IF x < 0 \/ x >= w \/ y < 0 \/ y >= h THEN c.border ELSE t[y * w + x]

ForwardValue(t, im, h, w, i, c) ==
    LET x == i % w
        y == i \div w
    IN  IF im[i] = 0 THEN 0
        ELSE Cap(c,
             Min2(TmpAt(t, h, w, x - 1, y - 2, c) + c.long,
             Min2(TmpAt(t, h, w, x + 1, y - 2, c) + c.long,
             Min2(TmpAt(t, h, w, x - 2, y - 1, c) + c.long,
             Min2(TmpAt(t, h, w, x - 1, y - 1, c) + c.diag,
             Min2(TmpAt(t, h, w, x, y - 1, c) + c.hv,
             Min2(TmpAt(t, h, w, x + 1, y - 1, c) + c.diag,
             Min2(TmpAt(t, h, w, x + 2, y - 1, c) + c.long,
                  TmpAt(t, h, w, x - 1, y, c) + c.hv))))))))

BackwardValue(t, h, w, i, c) ==
    LET x == i % w
        y == i \div w
        t0 == t[i]
    IN  IF t0 > c.hv
        THEN Cap(c,
             Min2(t0,
             Min2(TmpAt(t, h, w, x + 1, y + 2, c) + c.long,
             Min2(TmpAt(t, h, w, x - 1, y + 2, c) + c.long,
             Min2(TmpAt(t, h, w, x + 2, y + 1, c) + c.long,
             Min2(TmpAt(t, h, w, x + 1, y + 1, c) + c.diag,
             Min2(TmpAt(t, h, w, x, y + 1, c) + c.hv,
             Min2(TmpAt(t, h, w, x - 1, y + 1, c) + c.diag,
             Min2(TmpAt(t, h, w, x - 2, y + 1, c) + c.long,
                  TmpAt(t, h, w, x + 1, y, c) + c.hv)))))))))
        ELSE t0

\* Forward pass over the pixels lo..hi in raster order.
RECURSIVE ForwardPass(_, _, _, _, _, _, _)
ForwardPass(t, im, h, w, lo, hi, c) ==
    IF lo = hi THEN [t EXCEPT ![lo] = ForwardValue(t, im, h, w, lo, c)]
    ELSE LET mid == (lo + hi) \div 2
             first == ForwardPass(t, im, h, w, lo, mid, c)
         IN  IF first[lo] >= 0
             THEN ForwardPass(first, im, h, w, mid + 1, hi, c) ELSE first

\* Backward pass over the pixels hi..lo in reverse raster order.
RECURSIVE BackwardPass(_, _, _, _, _, _)
BackwardPass(t, h, w, lo, hi, c) ==
    IF lo = hi THEN [t EXCEPT ![lo] = BackwardValue(t, h, w, lo, c)]
    ELSE LET mid == (lo + hi) \div 2
             first == BackwardPass(t, h, w, mid + 1, hi, c)
         IN  IF first[hi] >= 0
             THEN BackwardPass(first, h, w, lo, mid, c) ELSE first

\* The number of bits of n >= 0.
RECURSIVE BitLength(_)
BitLength(n) == IF n = 0 THEN 0 ELSE 1 + BitLength(n \div 2)

\* The float32 nearest to v + b / 2 (b is 0 or 1), ties to the even
\* significand: a float32 keeps 24 significant bits.  Every value the
\* buffers hold with b = 1 has more bits than that.
Float32(v, b) ==
    LET bits == BitLength(v) + 1
    IN  IF bits <= 25 THEN v
        ELSE LET half == 2^(bits - 26)
                 q == v \div (2 * half)
                 r == 2 * (v % (2 * half)) + b
             IN  IF r < 2 * half THEN q * 2 * half
                 ELSE IF r > 2 * half THEN (q + 1) * 2 * half
                 ELSE (q + (q % 2)) * 2 * half

\* d[j] = (float)(t0 * scale), in units of 1/32768 pixel.
DistanceTransform(im, h, w, build) ==
    LET n == h * w
        c == Chamfer(build)
        zero == [i \in 0..(n - 1) |-> 0]
        tmp == BackwardPass(ForwardPass(zero, im, h, w, 0, n - 1, c),
                            h, w, 0, n - 1, c)
    IN  [i \in 0..(n - 1) |->
           IF build = "uint"
           THEN Float32(tmp[i], IF tmp[i] = HALF_DIST_MAX THEN 1 ELSE 0)
           ELSE Float32(tmp[i] \div 2, tmp[i] % 2)]

RECURSIVE MaxOver(_, _, _)
MaxOver(f, lo, hi) ==
    IF lo = hi THEN f[lo]
    ELSE LET mid == (lo + hi) \div 2
         IN  Max2(MaxOver(f, lo, mid), MaxOver(f, mid + 1, hi))

\* Lines 80-81: cv2.threshold(dist, sep_force * dist.max(), 255, 0), the
\* slider in quarters (0.0, 0.25, 0.5, 0.75, 1.0): a pixel is kept when it
\* is strictly above the threshold, the float32 nearest to the product.
SepUnit == 4

\* The distances from which the comparison is made on sixteenths: they are
\* float32 values of 29 bits or more, whole multiples of 16.
Coarse == 2^28

\* SepUnit * d compared with the rounded sep * top: -1, 0 or 1.
CompareScaled(d, sep, top) ==
    IF top < Coarse
    THEN LET thr == Float32(sep * top, 0)
         IN  IF SepUnit * d > thr THEN 1 ELSE IF SepUnit * d = thr THEN 0 ELSE -1
    ELSE LET thr == Float32(sep * (top \div 16), 0)
             d16 == d \div 16
         IN  IF SepUnit * d16 > thr THEN 1
             ELSE IF SepUnit * d16 < thr THEN -1
             ELSE IF d % 16 > 0 THEN 1 ELSE 0

\* The variant that keeps a pixel equal to the threshold (>= for >).
PeakThresholdInclusive(dist, h, w, sep) ==
    LET top == MaxOver(dist, 0, h * w - 1)
    IN  [i \in 0..(h * w - 1) |->
           IF CompareScaled(dist[i], sep, top) >= 0 THEN 255 ELSE 0]

PeakThreshold(dist, h, w, sep) ==
    LET top == MaxOver(dist, 0, h * w - 1)
    IN  [i \in 0..(h * w - 1) |->
           IF CompareScaled(dist[i], sep, top) > 0 THEN 255 ELSE 0]

---------------------------------------------------------------------------
\* cv2.findContours(im, RETR_EXTERNAL, CHAIN_APPROX_SIMPLE): border
\* following.  Direction codes 0..7 run counter-clockwise from east, y down.

CodeDeltas ==
    << <<1, 0>>, <<1, -1>>, <<0, -1>>, <<-1, -1>>,
       <<-1, 0>>, <<-1, 1>>, <<0, 1>>, <<1, 1>> >>

NonZeroAt(im, h, w, x, y) ==
    x >= 0 /\ x < w /\ y >= 0 /\ y < h /\ im[y * w + x] # 0

Step(p, s) == <<p[1] + CodeDeltas[s + 1][1], p[2] + CodeDeltas[s + 1][2]>>

\* The first loop of the border follower at the start pixel p0 of an outer
\* border: clockwise from west; -1 for a single pixel.
FirstDirection(im, h, w, p0) ==
    LET order == <<3, 2, 1, 0, 7, 6, 5>>
        hits == {k \in 1..7 :
                   NonZeroAt(im, h, w, Step(p0, order[k])[1], Step(p0, order[k])[2])}
    IN  IF hits = {} THEN -1
        ELSE order[CHOOSE k \in hits : \A o \in hits : k <= o]

\* The next border pixel from p: counter-clockwise, starting after direction s.
NextDirection(im, h, w, p, s) ==
    LET hits == {k \in 1..8 :
                   NonZeroAt(im, h, w, Step(p, (s + k) % 8)[1], Step(p, (s + k) % 8)[2])}
    IN  (s + (CHOOSE k \in hits : \A o \in hits : k <= o)) % 8

\* One round of the border following loop.  A point is written when the
\* direction changes (CHAIN_APPROX_SIMPLE); the loop ends when it is about
\* to repeat its first move.
TraceStep(st, im, h, w, p0, p1) ==
    LET s == NextDirection(im, h, w, st.p, st.s)
        p4 == Step(st.p, s)
    IN  [p |-> p4,
         s |-> (s + 4) % 8,
         prev_s |-> s,
         pts |-> IF s # st.prev_s THEN Append(st.pts, st.p) ELSE st.pts,
         border |-> st.border \cup {st.p[2] * w + st.p[1]},
         done |-> (p4 = p0 /\ st.p = p1)]

\* At most n rounds, stopping at the end of the border.
RECURSIVE TraceRounds(_, _, _, _, _, _, _)
TraceRounds(st, im, h, w, p0, p1, n) ==
    IF st.done THEN st
    ELSE IF n = 1 THEN TraceStep(st, im, h, w, p0, p1)
    ELSE LET first == TraceRounds(st, im, h, w, p0, p1, n \div 2)
         IN  IF first.done THEN first
             ELSE TraceRounds(first, im, h, w, p0, p1, n - n \div 2)

\* The outer border that starts at pixel p0: its points and its pixels.
FetchContour(im, h, w, p0) ==
    LET s0 == FirstDirection(im, h, w, p0)
    IN  IF s0 = -1
        THEN [pts |-> <<p0>>, border |-> {p0[2] * w + p0[1]}]
        ELSE LET st == TraceRounds([p |-> p0, s |-> s0, prev_s |-> (s0 + 4) % 8,
                                    pts |-> <<>>, border |-> {}, done |-> FALSE],
                                   im, h, w, p0, Step(p0, s0), 4 * h * w)
             IN  [pts |-> st.pts, border |-> st.border]

\* The raster scan over the pixels lo..hi: an outer border starts at a
\* pixel that follows outer background and is not on a border already
\* followed.  Components inside a hole of another component start nothing.
RECURSIVE ScanContours(_, _, _, _, _, _, _)
ScanContours(acc, im, filled, h, w, lo, hi) ==
    IF lo = hi
    THEN IF /\ filled[lo] # 0
            /\ (lo % w = 0 \/ filled[lo - 1] = 0)
            /\ lo \notin acc.border
         THEN LET c == FetchContour(im, h, w, <<lo % w, lo \div w>>)
              IN  [found |-> Append(acc.found, c.pts),
                   border |-> acc.border \cup c.border]
         ELSE acc
    ELSE LET mid == (lo + hi) \div 2
             first == ScanContours(acc, im, filled, h, w, lo, mid)
         IN  IF Len(first.found) >= 0
             THEN ScanContours(first, im, filled, h, w, mid + 1, hi) ELSE first

Reverse(s) == [k \in 1..Len(s) |-> s[Len(s) + 1 - k]]

\* The contours as returned: the last one found comes first.
FindExternalContours(im, h, w) ==
    LET filled == FillExternalContours(im, h, w)
        scan == ScanContours([found |-> <<>>, border |-> {}],
                             im, filled, h, w, 0, h * w - 1)
    IN  Reverse(scan.found)

---------------------------------------------------------------------------
\* cv2.contourArea and cv2.moments of a contour (Green's formula).

RECURSIVE SumOver(_, _, _)
SumOver(f, lo, hi) ==
    IF lo > hi THEN 0
    ELSE IF lo = hi THEN f[lo]
    ELSE LET mid == (lo + hi) \div 2
         IN  SumOver(f, lo, mid) + SumOver(f, mid + 1, hi)

Prev(c, k) == IF k = 1 THEN c[Len(c)] ELSE c[k - 1]

Cross(c, k) == Prev(c, k)[1] * c[k][2] - c[k][1] * Prev(c, k)[2]

\* a00 = 2 * m00, a10 = 6 * m10, a01 = 6 * m01, before the sign is fixed.
A00(c) == SumOver([k \in 1..Len(c) |-> Cross(c, k)], 1, Len(c))
A10(c) == SumOver([k \in 1..Len(c) |-> Cross(c, k) * (Prev(c, k)[1] + c[k][1])], 1, Len(c))
A01(c) == SumOver([k \in 1..Len(c) |-> Cross(c, k) * (Prev(c, k)[2] + c[k][2])], 1, Len(c))

\* Twice cv2.contourArea(c).
ContourArea2(c) == Abs(A00(c))

\* int(M["m10"] / M["m00"]) and int(M["m01"] / M["m00"]).
CentroidX(c) == TruncDiv(A10(c), 3 * A00(c))
CentroidY(c) == TruncDiv(A01(c), 3 * A00(c))

---------------------------------------------------------------------------
\* What the camera can deliver.  A buffer stands for the bytes of a photo:
\* an encoded frame, or bytes cv2.imdecode cannot read (it returns None).

CorruptBuffer == [kind |-> "corrupt"]
Encoded(frame) == [kind |-> "image", frame |-> frame]

\* imdecode: the frame of an encoded buffer, None for anything else.
Imdecode(buf) == IF buf.kind = "image" THEN buf.frame ELSE None

\* Survey frames: white pills on a wooden table, and uniform frames.
OnePill == ShapesFrame(FrameSide, FrameSide, {<<12, 12, 7>>}, {}, {}, White, Wood)
Peanut == ShapesFrame(FrameSide, FrameSide + 2, {},
                      {<<3, 4, 15, 16>>, <<13, 14, 21, 22>>}, {}, White, Wood)
PillAndCrumb == ShapesFrame(FrameSide + 2, FrameSide, {<<8, 9, 7>>},
                            {<<17, 18, 21, 22>>}, {}, White, Wood)
Ring == ShapesFrame(FrameSide, FrameSide, {<<12, 12, 9>>}, {}, {<<12, 12, 3>>}, White, Wood)
SmallSide == FrameSide \div 2

SurveyBuffers ==
    { Encoded(UniformFrame(FrameSide, FrameSide, White)),
      Encoded(UniformFrame(FrameSide, FrameSide, Wood)),
      Encoded(UniformFrame(SmallSide, SmallSide, White)),
      Encoded(OnePill), Encoded(Peanut), Encoded(PillAndCrumb), Encoded(Ring),
      CorruptBuffer }

\* Slider positions (lines 22-37).  mask_radius in hundredths, HSV bounds as
\* <<<<h_min, s_min, v_min>>, <<h_max, s_max, v_max>>>>, sep_force in quarters.
DefaultHsv == << <<0, 0, 140>>, <<179, 100, 255>> >>
DarkHsv    == << <<0, 0, 0>>, <<179, 255, 10>> >>
EmptyHsv   == << <<100, 0, 0>>, <<50, 255, 255>> >>

SurveySliders ==
    [mask_radius |-> {10, 50, 85, 100},
     hsv         |-> {DefaultHsv, DarkHsv, EmptyHsv},
     fill_holes  |-> {TRUE, FALSE},
     min_area    |-> {10, 150},
     sep_force   |-> 0..SepUnit]

NoArray == <<>>
NoError == ""

\* The script starts: nothing read, nothing computed, camera_input has
\* returned None or one of the buffers.
Start(buffers) ==
    /\ pc = "camera"
    /\ img_file \in buffers \cup {None}
    /\ cfg = <<>>
    /\ img = None
    /\ mask = NoArray
    /\ masked_img = NoArray
    /\ thresh = NoArray
    /\ opening = NoArray
    /\ dist_transform = NoArray
    /\ sure_fg = NoArray
    /\ cnts = <<>>
    /\ idx = 0
    /\ count = 0
    /\ output_img = <<>>
    /\ error = NoError
    /\ shown = <<>>

Init == Start(SurveyBuffers)

---------------------------------------------------------------------------
\* The script and process_image, one action per stage.  A slider is drawn
\* where the code reads it and recorded in cfg.

Bind(name, value) == cfg @@ (name :> value)

\* Line 109-111: no photo yet, the page waits.
NoPhoto ==
    /\ pc = "camera"
    /\ img_file = None
    /\ pc' = "idle"
    /\ UNCHANGED <<img_file, cfg, img, mask, masked_img, thresh, opening,
                   dist_transform, sure_fg, cnts, idx, count, output_img,
                   error, shown>>

\* Line 111: a photo was taken, process_image is called with it.
Submit ==
    /\ pc = "camera"
    /\ img_file # None
    /\ pc' = "decode"
    /\ UNCHANGED <<img_file, cfg, img, mask, masked_img, thresh, opening,
                   dist_transform, sure_fg, cnts, idx, count, output_img,
                   error, shown>>

\* Lines 42-44: decode, then read img.shape; on None the attribute access
\* raises AttributeError and the call ends.
Decode ==
    /\ pc = "decode"
    /\ img' = Imdecode(img_file)
    /\ IF img' = None
       THEN pc' = "raised" /\ error' = "AttributeError"
       ELSE pc' = "mask" /\ error' = error
    /\ UNCHANGED <<img_file, cfg, mask, masked_img, thresh, opening,
                   dist_transform, sure_fg, cnts, idx, count, output_img, shown>>

\* Lines 46-53: the circular mask and the masked frame.
ApplyMask(radii) ==
    /\ pc = "mask"
    /\ \E r \in radii :
          /\ cfg' = Bind("mask_radius", r)
          /\ mask' = Materialize(CircleMask(img.h, img.w, MaskRadius(img.h, img.w, r)))
    /\ masked_img' = Materialize(BitwiseAndMask(img.pix, mask'))
    /\ pc' = "inrange"
    /\ UNCHANGED <<img_file, img, thresh, opening, dist_transform, sure_fg,
                   cnts, idx, count, output_img, error, shown>>

\* Lines 55-61: HSV conversion and the colour range filter.
ColourFilter(ranges) ==
    /\ pc = "inrange"
    /\ \E b \in ranges :
          /\ cfg' = Bind("hsv", b)
          /\ thresh' = Materialize(InRange(masked_img, b[1], b[2]))
    /\ pc' = "fill"
    /\ UNCHANGED <<img_file, img, mask, masked_img, opening, dist_transform,
                   sure_fg, cnts, idx, count, output_img, error, shown>>

\* Lines 66-73: with fill_holes, closing and then every external contour
\* drawn filled; without it thresh is left as it is.
FillHoles(flags) ==
    /\ pc = "fill"
    /\ \E f \in flags :
          /\ cfg' = Bind("fill_holes", f)
          /\ thresh' = IF f
                       THEN Rows(FillExternalContours(
                                     MorphClose(Raster(thresh, img.h, img.w),
                                                img.h, img.w, CloseIterations),
                                     img.h, img.w),
                                 img.h, img.w)
                       ELSE thresh
    /\ pc' = "open"
    /\ UNCHANGED <<img_file, img, mask, masked_img, opening, dist_transform,
                   sure_fg, cnts, idx, count, output_img, error, shown>>

\* Line 76: opening.
Open ==
    /\ pc = "open"
    /\ opening' = Rows(MorphOpen(Raster(thresh, img.h, img.w),
                                 img.h, img.w, OpenIterations),
                       img.h, img.w)
    /\ pc' = "distance"
    /\ UNCHANGED <<img_file, cfg, img, mask, masked_img, thresh, dist_transform,
                   sure_fg, cnts, idx, count, output_img, error, shown>>

\* Line 79: the distance transform, of whichever build is installed.
Distance ==
    /\ pc = "distance"
    /\ \E build \in Builds :
          dist_transform' = Rows(DistanceTransform(Raster(opening, img.h, img.w),
                                                   img.h, img.w, build),
                                 img.h, img.w)
    /\ pc' = "peaks"
    /\ UNCHANGED <<img_file, cfg, img, mask, masked_img, thresh, opening,
                   sure_fg, cnts, idx, count, output_img, error, shown>>

\* Lines 80-81: the peak map.
Peaks(forces) ==
    /\ pc = "peaks"
    /\ \E t \in forces :
          /\ cfg' = Bind("sep_force", t)
          /\ sure_fg' = Rows(PeakThreshold(Raster(dist_transform, img.h, img.w),
                                           img.h, img.w, t),
                             img.h, img.w)
    /\ pc' = "contours"
    /\ UNCHANGED <<img_file, img, mask, masked_img, thresh, opening,
                   dist_transform, cnts, idx, count, output_img, error, shown>>

\* Lines 84-87: the contours of the peak map, count = 0, a fresh output image.
Contours ==
    /\ pc = "contours"
    /\ cnts' = FindExternalContours(Raster(sure_fg, img.h, img.w), img.h, img.w)
    /\ count' = 0
    /\ output_img' = <<>>
    /\ idx' = 1
    /\ pc' = "loop"
    /\ UNCHANGED <<img_file, cfg, img, mask, masked_img, thresh, opening,
                   dist_transform, sure_fg, error, shown>>

\* min_area as the loop reads it: drawn at the first read, the same after.
MinAreaChoices(areas) ==
    IF "min_area" \in DOMAIN cfg THEN {cfg.min_area} ELSE areas

\* cv2.boundingRect(c) of line 103: <<x, y, w_rect, h_rect>>.
BoundingRect(c) ==
    LET xs == {c[i][1] : i \in 1..Len(c)}
        ys == {c[i][2] : i \in 1..Len(c)}
        x0 == CHOOSE v \in xs : \A o \in xs : v <= o
        x1 == CHOOSE v \in xs : \A o \in xs : v >= o
        y0 == CHOOSE v \in ys : \A o \in ys : v <= o
        y1 == CHOOSE v \in ys : \A o \in ys : v >= o
    IN  <<x0, y0, x1 - x0 + 1, y1 - y0 + 1>>

\* The rectangle of line 104: from (x, y) to (x + w_rect, y + h_rect).
BoxOf(c) ==
    LET r == BoundingRect(c)
    IN  <<r[1], r[2], r[1] + r[3], r[2] + r[4]>>

\* Lines 98-104 for contour c counted as number k, when m00 is not 0: the
\* dot and the label at the centroid, and the bounding rectangle.
\* The variant that writes the loop position instead of the running count.
AnnotateByPosition(out, c, k) ==
    IF A00(c) # 0
    THEN Append(out, [label |-> idx, dot |-> <<CentroidX(c), CentroidY(c)>>,
                      box |-> BoxOf(c)])
    ELSE out

Annotate(out, c, k) ==
    IF A00(c) # 0
    THEN Append(out, [label |-> k, dot |-> <<CentroidX(c), CentroidY(c)>>,
                      box |-> BoxOf(c)])
    ELSE out

\* Lines 89-104: one iteration of the counting loop.
LoopStep(areas) ==
    /\ pc = "loop"
    /\ idx <= Len(cnts)
    /\ \E a \in MinAreaChoices(areas) :
          /\ cfg' = Bind("min_area", a)
          /\ IF ContourArea2(cnts[idx]) < 2 * a
             THEN /\ count' = count
                  /\ output_img' = output_img
             ELSE /\ count' = count + 1
                  /\ output_img' = Annotate(output_img, cnts[idx], count + 1)
    /\ idx' = idx + 1
    /\ UNCHANGED <<pc, img_file, img, mask, masked_img, thresh, opening,
                   dist_transform, sure_fg, cnts, error, shown>>

\* Line 106: the loop is over, process_image returns.
Return ==
    /\ pc = "loop"
    /\ idx > Len(cnts)
    /\ pc' = "returned"
    /\ UNCHANGED <<img_file, cfg, img, mask, masked_img, thresh, opening,
                   dist_transform, sure_fg, cnts, idx, count, output_img,
                   error, shown>>

\* Lines 113-114: the page shows the count.
Render ==
    /\ pc = "returned"
    /\ shown' = <<count>>
    /\ pc' = "rendered"
    /\ UNCHANGED <<img_file, cfg, img, mask, masked_img, thresh, opening,
                   dist_transform, sure_fg, cnts, idx, count, output_img, error>>

Next ==
    \/ NoPhoto
    \/ Submit
    \/ Decode
    \/ ApplyMask(SurveySliders.mask_radius)
    \/ ColourFilter(SurveySliders.hsv)
    \/ FillHoles(SurveySliders.fill_holes)
    \/ Open
    \/ Distance
    \/ Peaks(SurveySliders.sep_force)
    \/ Contours
    \/ LoopStep(SurveySliders.min_area)
    \/ Return
    \/ Render

Spec == Init /\ [][Next]_vars

---------------------------------------------------------------------------
\* Scenario 2 at full scale: two filled circles of radius 30 whose centres
\* are 50 apart, and one such circle alone, white on the table, well inside
\* a square frame, with the mask at full radius and the default HSV range.

TouchingCircles == ShapesFrame(128, 128, {<<39, 64, 30>>, <<89, 64, 30>>}, {}, {}, White, Wood)
LoneCircle == ShapesFrame(128, 128, {<<64, 64, 30>>}, {}, {}, White, Wood)

Scenario2Buffers == {Encoded(TouchingCircles), Encoded(LoneCircle)}

Scenario2Sliders ==
    [mask_radius |-> {100},
     hsv         |-> {DefaultHsv},
     fill_holes  |-> {TRUE, FALSE},
     min_area    |-> {10, 150},
     sep_force   |-> 0..SepUnit]

InitScenario2 == Start(Scenario2Buffers)

NextScenario2 ==
    \/ NoPhoto
    \/ Submit
    \/ Decode
    \/ ApplyMask(Scenario2Sliders.mask_radius)
    \/ ColourFilter(Scenario2Sliders.hsv)
    \/ FillHoles(Scenario2Sliders.fill_holes)
    \/ Open
    \/ Distance
    \/ Peaks(Scenario2Sliders.sep_force)
    \/ Contours
    \/ LoopStep(Scenario2Sliders.min_area)
    \/ Return
    \/ Render

SpecScenario2 == InitScenario2 /\ [][NextScenario2]_vars

---------------------------------------------------------------------------
\* Properties

AfterColourFilter == {"fill", "open", "distance", "peaks", "contours", "loop",
                      "returned", "rendered"}
AfterOpen == AfterColourFilter \ {"fill", "open"}
AfterContours == {"loop", "returned", "rendered"}

\* C1: every pixel outside the circular mask is background in thresh (after
\* inRange and after the closing / contour fill) and in the opened map.
C1_MaskDominates ==
    /\ pc \in AfterColourFilter =>
          \A y \in DOMAIN mask : \A x \in DOMAIN mask[y] :
             mask[y][x] = 0 => thresh[y][x] = 0
    /\ pc \in AfterOpen =>
          \A y \in DOMAIN mask : \A x \in DOMAIN mask[y] :
             mask[y][x] = 0 => opening[y][x] = 0

\* C2: the centroid of every counted detection is within the mask radius of
\* the mask centre (w // 2, h // 2).
C2_CentroidsInsideMask ==
    pc \in AfterContours =>
       \A k \in 1..Len(output_img) :
          LET dx == output_img[k].dot[1] - img.w \div 2
              dy == output_img[k].dot[2] - img.h \div 2
              radius == MaskRadius(img.h, img.w, cfg.mask_radius)
          IN  dx * dx + dy * dy <= radius * radius

\* The number of peak regions of the distance field at separation t.
Candidates(t) ==
    Len(FindExternalContours(
            PeakThreshold(Raster(dist_transform, img.h, img.w), img.h, img.w, t),
            img.h, img.w))

\* The opened map holds one blob: one external contour.
SingleBlob ==
    Len(FindExternalContours(Raster(opening, img.h, img.w), img.h, img.w)) = 1

\* C3: for a map holding a single blob, raising sep_force never lowers the
\* number of peak regions: for t1 <= t2, Candidates(t1) <= Candidates(t2).
C3_MonotonicSeparation ==
    (pc = "peaks" /\ SingleBlob) =>
       \A t1, t2 \in SurveySliders.sep_force :
          t1 <= t2 => Candidates(t1) <= Candidates(t2)

\* C4: on the frame with two touching circles of radius 30 whose centres
\* are 50 apart, sep_force = 0.5 returns count = 2.
C4_TouchingCirclesCountTwo ==
    (pc = "returned" /\ 2 * cfg.sep_force = SepUnit /\ img = TouchingCircles)
       => count = 2

Uniform(frame) ==
    \A y \in DOMAIN frame.pix : \A x \in DOMAIN frame.pix[y] :
       frame.pix[y][x] = frame.pix[0][0]

\* C5: a frame whose pixels all have the same colour returns count = 0
\* under every slider configuration.
C5_UniformFrameCountsZero ==
    pc = "returned" => (count = 0 \/ ~Uniform(img))

\* No pixel of the decoded frame lies in the HSV range read at line 57-61.
RangeMatchesNoPixel ==
    \A y \in DOMAIN img.pix : \A x \in DOMAIN img.pix[y] :
       ~InRangePixel(BGR2HSV(img.pix[y][x]), cfg.hsv[1], cfg.hsv[2])

\* C6: when the HSV range matches no pixel of a decoded frame, process_image
\* does not raise and returns count = 0.
C6_NoMatchCountsZero ==
    /\ pc = "raised" => img = None
    /\ pc = "returned" => (count = 0 \/ ~RangeMatchesNoPixel)

\* The contours among the first n visited whose area is >= min_area.
Passed(n) ==
    IF n = 0 THEN <<>>
    ELSE SelectSeq(SubSeq(cnts, 1, n),
                   LAMBDA c : ContourArea2(c) >= 2 * cfg.min_area)

\* C7: the loop visits cnts in order; count is the number of visited
\* contours with area >= min_area, the k-th of them carries label k at its
\* centroid and its bounding rectangle, and when the loop is over every
\* contour has been visited.
C7_SequentialLabels ==
    pc \in AfterContours =>
       LET passed == Passed(idx - 1)
       IN  /\ count = Len(passed)
           /\ output_img = [k \in 1..Len(passed) |->
                              [label |-> k,
                               dot |-> <<CentroidX(passed[k]), CentroidY(passed[k])>>,
                               box |-> BoxOf(passed[k])]]
           /\ pc # "loop" => idx - 1 = Len(cnts)

\* A run that skipped its first contour and then counted at least two.
C7_Witness ==
    /\ pc = "returned"
    /\ count >= 2
    /\ ContourArea2(cnts[1]) < 2 * cfg.min_area

\* C8: an undecodable buffer makes process_image raise DecodeError, with no
\* count and no annotation, and the page renders no count.
C8_DecodeErrorRaised ==
    (img_file.kind = "corrupt" /\ pc \notin {"camera", "decode"}) =>
       /\ pc = "raised"
       /\ error = "DecodeError"
       /\ count = 0 /\ output_img = <<>> /\ shown = <<>>

\* C9: a mask radius below 1 pixel is rejected with ConfigurationError and
\* no stage runs with it.
C9_DegenerateRegionRejected ==
    ("mask_radius" \in DOMAIN cfg
        /\ MaskRadius(img.h, img.w, cfg.mask_radius) < 1) =>
       (pc = "raised" /\ error = "ConfigurationError")

\* C10: with sep_force = 1.0 the peak map is empty and the count is 0, on
\* the page too; with sep_force = 0.0 the peak map is the foreground of
\* the opened map.
C10_SepForceExtremes ==
    (pc \in {"contours"} \cup AfterContours) =>
       /\ cfg.sep_force = SepUnit =>
             /\ \A y \in DOMAIN sure_fg : \A x \in DOMAIN sure_fg[y] :
                   sure_fg[y][x] = 0
             /\ count = 0
             /\ pc = "rendered" => shown = <<0>>
       /\ cfg.sep_force = 0 =>
             \A y \in DOMAIN sure_fg : \A x \in DOMAIN sure_fg[y] :
                (sure_fg[y][x] # 0) <=> (opening[y][x] # 0)

\* A run at sep_force = 1.0 on an opened map that has foreground.
C10_Witness ==
    /\ pc = "returned"
    /\ cfg.sep_force = SepUnit
    /\ \E y \in DOMAIN opening : \E x \in DOMAIN opening[y] : opening[y][x] # 0

====
